---- MODULE Spec2Model ----
(***************************************************************************)
(* SkillSwap real-time messaging relay (server/routes.ts) together with    *)
(* the message table of the persistence layer (database-storage.ts).       *)
(*                                                                         *)
(* Conventions of the model                                                *)
(*  - A connection handle is a number in Conns; 0 (NoHandle) is the       *)
(*    `undefined` of Map.get.                                              *)
(*  - JSON numbers are integers.  Null stands for a missing / null field; *)
(*    0 is the number zero.  Both are falsy in JavaScript.  The id fields  *)
(*    of a frame carry numbers, as the clients send them; the key         *)
(*    "unknown" is therefore never the result of a toString().             *)
(*  - `sent` is the list of ws.send(...) calls issued by the last handler *)
(*    step, in call order, as pairs <<handle, frame>>.  ws.send on a       *)
(*    socket that already closed does not throw (ws >= 8 reports the       *)
(*    failure through the optional callback only), so the call is logged   *)
(*    whatever the state of the socket.                                    *)
(*  - `pending` holds the chat handlers suspended at their await of        *)
(*    storage.createMessage; a handler resumes in one step with the insert *)
(*    either done or rejected.                                             *)
(*  - `last` describes the handler step that produced the current state,  *)
(*    `registered` the handle of the last register requested for a key    *)
(*    when no unregister of the key followed it, NoHandle otherwise.       *)
(***************************************************************************)
EXTENDS Integers, Sequences, FiniteSets

\* ---------------------------------------------------------------- bounds
MaxConns == 2
MaxUser == 2
MaxMsgs == 2
MaxSkill == 2
MaxExch == 2
MaxClock == 4
MaxEffects == 2
MaxAttempts == 10
MaxSends == 1
MaxDrops == 1
MaxLines == 1

\* ------------------------------------------------------------- constants
Null == -1
NoHandle == 0
Unknown == "unknown"

Conns == 1..MaxConns
UserIds == 1..MaxUser
\* values a numeric field of a frame can carry: missing, zero, a user id
IdInputs == {Null, 0} \cup UserIds
ReceiverInputs == {Null} \cup UserIds
ExchangeInputs == {Null, 0, 1}
Contents == {"hi"}
\* req.user.id of an HTTP request; Null: the request is not authenticated
CallerInputs == {Null} \cup UserIds
SkillIds == 1..MaxSkill
\* ids a request can name for a skill: none, one without a row, an existing one
SkillInputs == {Null, 0} \cup SkillIds
ExchangeIds == 1..MaxExch
Statuses == {"pending", "accepted", "declined", "completed"}
\* the `status` of a request body: the four values, another string, none
StatusInputs == Statuses \cup {"cancelled", ""}
\* the instances of the WebSocket effect of the messages page, in run order
Effects == 1..MaxEffects
\* `user.id` of the messages page
PageUser == 1

\* -------------------------------------------------------------- helpers
Digit(d) == <<"0", "1", "2", "3", "4", "5", "6", "7", "8", "9">>[d + 1]

RECURSIVE ToString(_)
\* Number.prototype.toString() of a non-negative integer
ToString(n) == IF n < 10 THEN Digit(n) ELSE ToString(n \div 10) \o Digit(n % 10)

\* JavaScript truthiness of a number-or-missing value
Truthy(x) == x # Null /\ x # 0

\* `x || null`
OrNull(x) == IF Truthy(x) THEN x ELSE Null

Keys == {Unknown} \cup {ToString(u) : u \in UserIds}

NoMessage == [id |-> 0, senderId |-> Null, receiverId |-> Null, content |-> "",
              exchangeId |-> Null, read |-> FALSE]

\* server -> client frames; unused fields carry 0 / NoMessage
WelcomeFrame == [type |-> "system", message |-> "Connected to SkillSwap WebSocket server",
                 messageId |-> 0, payload |-> NoMessage]
IdentifiedFrame == [type |-> "system", message |-> "Identification successful",
                    messageId |-> 0, payload |-> NoMessage]
\* variant: the acknowledgment does not carry the identifier of the new row
AckFrameNoId(m) == [type |-> "system", message |-> "Message sent successfully",
                    messageId |-> 0, payload |-> NoMessage]

AckFrame(m) == [type |-> "system", message |-> "Message sent successfully",
                messageId |-> m.id, payload |-> NoMessage]
PushFrame(m) == [type |-> "message", message |-> "", messageId |-> 0, payload |-> m]
MismatchFrame == [type |-> "error", message |-> "Sender ID doesn't match your identity",
                  messageId |-> 0, payload |-> NoMessage]
FailedFrame == [type |-> "error", message |-> "Failed to process message",
                messageId |-> 0, payload |-> NoMessage]

NoEvent == [type |-> "init", conn |-> NoHandle, prev |-> Unknown, userId |-> Null,
            senderId |-> Null, receiverId |-> Null, content |-> "", exchangeId |-> Null,
            outcome |-> "", target |-> NoHandle, msgId |-> 0, arg |-> ""]

VARIABLES status, clientId, clients, pending, messages, messageIdCounter, sent, last,
          registered, exchanges, now

\* the messages page (client): sockets, effect instances, what is in flight
VARIABLES readyState, owner, effect, active, reconnectAttempts, delay, timers, held,
          wsRef, wsConnected, wire, posts, sends, drops

\* the state of the server
serverVars == <<status, clientId, clients, pending, messages, messageIdCounter, sent, last,
                registered, exchanges, now>>

\* the state of the messages page and of its requests in flight
pageVars == <<readyState, owner, effect, active, reconnectAttempts, delay, timers, held,
              wsRef, wsConnected, wire, posts, sends, drops>>

vars == <<serverVars, pageVars>>

\* the state of the relay and of the message table
relayVars == <<status, clientId, clients, pending, messages, messageIdCounter, registered>>

\* ------------------------------------------------------------- registry
\* clients.get(k)
Lookup(k) == clients[k]

\* clients.delete(k) on map m
MapDelete(m, k) == [m EXCEPT ![k] = NoHandle]

\* clients.set(k, h) on map m
MapSet(m, k, h) == [m EXCEPT ![k] = h]

\* ------------------------------------------------------------- storage
\* DatabaseStorage.createMessage: the inserted row
CreateMessage(data) ==
    [id |-> messageIdCounter, senderId |-> data.senderId, receiverId |-> data.receiverId,
     content |-> data.content, exchangeId |-> data.exchangeId, read |-> FALSE]

\* the insert violates NOT NULL of messages.receiver_id
InsertRejected(data) == data.receiverId = Null

\* DatabaseStorage.getMessageById
GetMessageById(id) == {i \in 1..Len(messages) : messages[i].id = id}

\* the rows of table content `rows` that are addressed to userId and not read
UnreadOf(rows, userId) ==
    {rows[i] : i \in {j \in 1..Len(rows) :
                        rows[j].receiverId = userId /\ rows[j].read = FALSE}}

\* DatabaseStorage.getUnreadMessagesByUserId (as a set of rows)
GetUnreadMessagesByUserId(userId) == UnreadOf(messages, userId)

\* ---------------------------------------------------------------- Init
Init ==
    /\ status = [c \in Conns |-> "new"]
    /\ clientId = [c \in Conns |-> Unknown]
    /\ clients = [k \in Keys |-> NoHandle]
    /\ pending = <<>>
    /\ messages = <<>>
    /\ messageIdCounter = 1
    /\ sent = <<>>
    /\ last = NoEvent
    /\ registered = [k \in Keys |-> NoHandle]
    /\ exchanges = <<>>
    /\ now = 1
    /\ readyState = [c \in Conns |-> "none"]
    /\ owner = [c \in Conns |-> 0]
    /\ effect = 0
    /\ active = FALSE
    /\ reconnectAttempts = [e \in Effects |-> 0]
    /\ delay = [e \in Effects |-> 0]
    /\ timers = [e \in Effects |-> 0]
    /\ held = [e \in Effects |-> FALSE]
    /\ wsRef = NoHandle
    /\ wsConnected = FALSE
    /\ wire = [c \in Conns |-> <<>>]
    /\ posts = 0
    /\ sends = 0
    /\ drops = 0

\* ------------------------------------------------------------- actions
\* wss.on("connection"): a new handle, clientId = "unknown", welcome frame
Connection(c) ==
    /\ status[c] = "new"
    /\ status' = [status EXCEPT ![c] = "open"]
    /\ clientId' = [clientId EXCEPT ![c] = Unknown]
    /\ sent' = <<<<c, WelcomeFrame>>>>
    /\ last' = [NoEvent EXCEPT !.type = "connect", !.conn = c]
    /\ UNCHANGED <<clients, pending, messages, messageIdCounter, registered>>
    /\ UNCHANGED <<exchanges, now>>

\* a connection is accepted; handles are given out in order
Connect(c) ==
    /\ \A d \in Conns : d < c => status[d] # "new"
    /\ Connection(c)

\* variant: an identify for a key that is already taken leaves the holder in place
IdentifyClientsFirstWins(c, userId) ==
    IF clients[ToString(userId)] # NoHandle
    THEN clients
    ELSE MapSet(IF clientId[c] # Unknown THEN MapDelete(clients, clientId[c]) ELSE clients,
                ToString(userId), c)

\* variant: the old reference of the connection is not removed
IdentifyClientsNoDelete(c, userId) == MapSet(clients, ToString(userId), c)

\* the registry after an identify frame with a truthy userId
IdentifyClients(c, userId) ==
    MapSet(IF clientId[c] # Unknown THEN MapDelete(clients, clientId[c]) ELSE clients,
           ToString(userId), c)

\* ws.on("message"), type "identify"
Identify(c, userId) ==
    /\ status[c] = "open"
    /\ last' = [NoEvent EXCEPT !.type = "identify", !.conn = c, !.prev = clientId[c],
                               !.userId = userId,
                               !.outcome = IF Truthy(userId) THEN "ok" ELSE "ignored"]
    /\ IF Truthy(userId)
       THEN /\ clients' = IdentifyClients(c, userId)
            /\ clientId' = [clientId EXCEPT ![c] = ToString(userId)]
            /\ sent' = <<<<c, IdentifiedFrame>>>>
            /\ registered' = [k \in Keys |->
                    IF k = ToString(userId) THEN c
                    ELSE IF k = clientId[c] /\ clientId[c] # Unknown THEN NoHandle
                    ELSE registered[k]]
       ELSE /\ sent' = <<>>
            /\ UNCHANGED <<clients, clientId, registered>>
    /\ UNCHANGED <<status, pending, messages, messageIdCounter>>
    /\ UNCHANGED <<exchanges, now>>

\* variant: any non-empty senderId is accepted
SenderMatchesAny(senderId, cid) == Truthy(senderId)

\* `senderId && senderId.toString() === clientId`
SenderMatches(senderId, cid) == Truthy(senderId) /\ ToString(senderId) = cid

\* ws.on("message"), type "chat", up to the await of storage.createMessage;
\* receiverId, content and exchangeId are read only once the sender is accepted
ChatBegin(c, senderId) ==
    /\ status[c] = "open"
    /\ IF SenderMatches(senderId, clientId[c])
       THEN /\ Len(pending) + Len(messages) < MaxMsgs
            /\ \E receiverId \in ReceiverInputs, content \in Contents,
                  exchangeId \in ExchangeInputs :
                    pending' = Append(pending,
                        [conn |-> c, senderId |-> senderId, receiverId |-> receiverId,
                         content |-> content, exchangeId |-> OrNull(exchangeId)])
            /\ sent' = <<>>
       ELSE /\ sent' = <<<<c, MismatchFrame>>>>
            /\ UNCHANGED pending
    /\ last' = [NoEvent EXCEPT !.type = "chat", !.conn = c, !.prev = clientId[c],
                               !.senderId = senderId,
                               !.outcome = IF SenderMatches(senderId, clientId[c])
                                           THEN "suspended" ELSE "rejected"]
    /\ UNCHANGED <<status, clientId, clients, messages, messageIdCounter, registered>>
    /\ UNCHANGED <<exchanges, now>>

\* variant: the push goes to every open connection identified as the receiver
AfterPersistFanOut(c, m) ==
    LET RECURSIVE PushTo(_)
        PushTo(n) == IF n = 0 THEN <<>>
                     ELSE PushTo(n - 1) \o
                          (IF status[n] = "open" /\ clientId[n] = ToString(m.receiverId)
                           THEN <<<<n, PushFrame(m)>>>> ELSE <<>>)
    IN <<<<c, AckFrame(m)>>>> \o PushTo(MaxConns)

\* variant: no live push for a message about a declined or completed exchange
AfterPersistOpenExchange(c, m) ==
    <<<<c, AckFrame(m)>>>> \o
    (IF /\ Lookup(ToString(m.receiverId)) # NoHandle
        /\ ~\E i \in DOMAIN exchanges : /\ exchanges[i].id = m.exchangeId
                                        /\ exchanges[i].status \in {"declined", "completed"}
     THEN <<<<Lookup(ToString(m.receiverId)), PushFrame(m)>>>>
     ELSE <<>>)

\* the sends after a successful createMessage: acknowledgment, then live push
AfterPersist(c, m) ==
    <<<<c, AckFrame(m)>>>> \o
    (IF Lookup(ToString(m.receiverId)) # NoHandle
     THEN <<<<Lookup(ToString(m.receiverId)), PushFrame(m)>>>>
     ELSE <<>>)

\* variant: the catch block only logs
AfterFailureSilent(c) == <<>>

\* the catch block of the message handler: an error frame to the originating socket
AfterFailure(c) == <<<<c, FailedFrame>>>>

RemoveAt(s, i) == [j \in 1..(Len(s) - 1) |-> IF j < i THEN s[j] ELSE s[j + 1]]

\* storage.createMessage settles and the chat handler runs to its end
ChatResume(i, ok) ==
    /\ i \in 1..Len(pending)
    /\ LET p == pending[i]
           data == [senderId |-> p.senderId, receiverId |-> p.receiverId,
                    content |-> p.content, exchangeId |-> p.exchangeId]
           m == CreateMessage(data)
           persisted == ok /\ ~InsertRejected(data)
       IN /\ pending' = RemoveAt(pending, i)
          /\ IF persisted
             THEN /\ messages' = Append(messages, m)
                  /\ messageIdCounter' = messageIdCounter + 1
                  /\ sent' = AfterPersist(p.conn, m)
             ELSE /\ sent' = AfterFailure(p.conn)
                  /\ UNCHANGED <<messages, messageIdCounter>>
          /\ last' = [NoEvent EXCEPT !.type = "resume", !.conn = p.conn,
                                     !.prev = clientId[p.conn],
                                     !.senderId = p.senderId, !.receiverId = p.receiverId,
                                     !.content = p.content, !.exchangeId = p.exchangeId,
                                     !.outcome = IF persisted THEN "persisted" ELSE "failed",
                                     !.target = IF persisted /\ p.receiverId # Null
                                                THEN Lookup(ToString(p.receiverId))
                                                ELSE NoHandle,
                                     !.msgId = IF persisted THEN m.id ELSE 0,
                                     !.arg = IF ok THEN "" ELSE "threw"]
    /\ UNCHANGED <<status, clientId, clients, registered>>
    /\ UNCHANGED <<exchanges, now>>

\* ws.on("message"), a parseable frame whose type is neither identify nor chat
OtherFrame(c) ==
    /\ status[c] = "open"
    /\ sent' = <<>>
    /\ last' = [NoEvent EXCEPT !.type = "other", !.conn = c, !.prev = clientId[c],
                               !.outcome = "ignored"]
    /\ UNCHANGED <<status, clientId, clients, pending, messages, messageIdCounter, registered>>
    /\ UNCHANGED <<exchanges, now>>

\* ws.on("message"), JSON.parse throws: the catch block answers with an error
MalformedFrame(c) ==
    /\ status[c] = "open"
    /\ sent' = AfterFailure(c)
    /\ last' = [NoEvent EXCEPT !.type = "malformed", !.conn = c, !.prev = clientId[c],
                               !.outcome = "rejected"]
    /\ UNCHANGED <<status, clientId, clients, pending, messages, messageIdCounter, registered>>
    /\ UNCHANGED <<exchanges, now>>

\* variant: close leaves the registry alone
CloseClientsKeep(c) == clients

\* variant: close removes the entries that hold this handle
CloseClientsByHandle(c) == [k \in Keys |-> IF clients[k] = c THEN NoHandle ELSE clients[k]]

\* variant: close removes the key the connection had when it was accepted
CloseClientsInitialKey(c) == MapDelete(clients, Unknown)

\* the registry after ws.on("close")
CloseClients(c) == MapDelete(clients, clientId[c])

\* ws.on("close")
Close(c) ==
    /\ status[c] = "open"
    /\ status' = [status EXCEPT ![c] = "closed"]
    /\ clients' = CloseClients(c)
    /\ registered' = IF clientId[c] # Unknown
                     THEN [registered EXCEPT ![clientId[c]] = NoHandle]
                     ELSE registered
    /\ sent' = <<>>
    /\ last' = [NoEvent EXCEPT !.type = "close", !.conn = c, !.prev = clientId[c]]
    /\ UNCHANGED <<clientId, pending, messages, messageIdCounter>>
    /\ UNCHANGED <<exchanges, now>>

\* variant: any authenticated user may mark a message as read
MayMarkReadAnyone(m, caller) == TRUE

MayMarkReadParticipant(m, caller) == caller \in {m.senderId, m.receiverId}

\* `message.receiverId !== req.user.id` of PATCH /api/messages/:id/read
MayMarkRead(m, caller) == m.receiverId = caller

\* DatabaseStorage.markMessageAsRead
MarkMessageAsRead(id) ==
    [i \in 1..Len(messages) |->
        IF messages[i].id = id THEN [messages[i] EXCEPT !.read = TRUE] ELSE messages[i]]

\* PATCH /api/messages/:id/read by the authenticated user `caller`
MarkRead(caller, id) ==
    /\ id \in 1..MaxMsgs
    /\ LET found == GetMessageById(id)
           allowed == found # {} /\ \A i \in found : MayMarkRead(messages[i], caller)
       IN /\ messages' = IF allowed THEN MarkMessageAsRead(id) ELSE messages
          /\ last' = [NoEvent EXCEPT !.type = "markread", !.userId = caller, !.msgId = id,
                                     !.outcome = IF found = {} THEN "404"
                                                 ELSE IF allowed THEN "200" ELSE "403"]
    /\ sent' = <<>>
    /\ UNCHANGED <<status, clientId, clients, pending, messageIdCounter, registered>>
    /\ UNCHANGED <<exchanges, now>>

\* ------------------------------------------------------------ exchanges
\* the teaching_skills table: skill s belongs to user SkillOwner(s)
SkillOwner(s) == ((s - 1) % MaxUser) + 1

\* storage.getTeachingSkillById: the userId of the row, Null without a row
GetTeachingSkillById(id) == IF id \in SkillIds THEN SkillOwner(id) ELSE Null

\* DatabaseStorage.getExchangeById (the positions of the rows with that id)
GetExchangeById(id) == {i \in 1..Len(exchanges) : exchanges[i].id = id}

\* DatabaseStorage.createExchange: the inserted row; updated_at has no default
CreateExchangeRow(data) ==
    [id |-> Len(exchanges) + 1, requesterId |-> data.requesterId,
     providerId |-> data.providerId, requestedSkillId |-> data.requestedSkillId,
     offeredSkillId |-> data.offeredSkillId, status |-> "pending",
     createdAt |-> now, updatedAt |-> Null]

\* insertExchangeSchema.parse: every picked column is a number
ExchangeDataValid(data) ==
    /\ data.providerId # Null
    /\ data.requestedSkillId # Null
    /\ data.offeredSkillId # Null

\* the ownership checks of POST /api/exchanges
SkillsBelong(data, caller) ==
    /\ GetTeachingSkillById(data.requestedSkillId) # Null
    /\ GetTeachingSkillById(data.requestedSkillId) = data.providerId
    /\ GetTeachingSkillById(data.offeredSkillId) # Null
    /\ GetTeachingSkillById(data.offeredSkillId) = caller

\* POST /api/exchanges by `caller`
CreateExchange(caller, providerId, requestedSkillId, offeredSkillId) ==
    LET data == [requesterId |-> caller, providerId |-> providerId,
                 requestedSkillId |-> requestedSkillId, offeredSkillId |-> offeredSkillId]
        code == IF caller = Null THEN "401"
                ELSE IF ~ExchangeDataValid(data) THEN "400"
                ELSE IF ~SkillsBelong(data, caller) THEN "400"
                ELSE "201"
    IN /\ code = "201" => Len(exchanges) < MaxExch /\ now <= MaxClock
       /\ IF code = "201"
          THEN /\ exchanges' = Append(exchanges, CreateExchangeRow(data))
               /\ now' = now + 1
          ELSE UNCHANGED <<exchanges, now>>
       /\ last' = [NoEvent EXCEPT !.type = "createExchange", !.userId = caller,
                                  !.outcome = code,
                                  !.exchangeId = IF code = "201" THEN Len(exchanges) + 1
                                                 ELSE Null]
       /\ sent' = <<>>
       /\ UNCHANGED relayVars

ValidStatusAny(st) == TRUE

\* `["pending", "accepted", "declined", "completed"].includes(status)`
ValidStatus(st) == st \in Statuses

WrongActorCompletedOnly(e, st, caller) ==
    st = "completed" /\ e.requesterId # caller /\ e.providerId # caller

\* the two actor checks of PATCH /api/exchanges/:id/status: TRUE when refused
WrongActor(e, st, caller) ==
    \/ st \in {"accepted", "declined"} /\ e.providerId # caller
    \/ st = "completed" /\ e.requesterId # caller /\ e.providerId # caller

UpdateExchangeStatusNoWhere(id, st) ==
    [i \in 1..Len(exchanges) |-> [exchanges[i] EXCEPT !.status = st, !.updatedAt = now]]

\* DatabaseStorage.updateExchangeStatus: the table after the update
UpdateExchangeStatus(id, st) ==
    [i \in 1..Len(exchanges) |->
        IF exchanges[i].id = id
        THEN [exchanges[i] EXCEPT !.status = st, !.updatedAt = now]
        ELSE exchanges[i]]

\* the response code of PATCH /api/exchanges/:id/status
PatchStatusCode(caller, id, st) ==
    IF caller = Null THEN "401"
    ELSE IF GetExchangeById(id) = {} THEN "404"
    ELSE IF ~ValidStatus(st) THEN "400"
    ELSE IF \E i \in GetExchangeById(id) : WrongActor(exchanges[i], st, caller) THEN "403"
    ELSE "200"

\* PATCH /api/exchanges/:id/status by `caller`
PatchStatus(caller, id, st) ==
    LET code == PatchStatusCode(caller, id, st)
    IN /\ code = "200" => now <= MaxClock
       /\ IF code = "200"
          THEN /\ exchanges' = UpdateExchangeStatus(id, st)
               /\ now' = now + 1
          ELSE UNCHANGED <<exchanges, now>>
       /\ last' = [NoEvent EXCEPT !.type = "patchStatus", !.userId = caller,
                                  !.exchangeId = id, !.arg = st, !.outcome = code]
       /\ sent' = <<>>
       /\ UNCHANGED relayVars

\* ------------------------------------------------------- HTTP messages
\* the response code of POST /api/messages
PostMessageCode(caller, receiverId, exchangeId) ==
    IF caller = Null THEN "401"
    ELSE IF receiverId = Null THEN "400"
    ELSE IF ~Truthy(exchangeId) THEN "201"
    ELSE IF GetExchangeById(exchangeId) = {} THEN "404"
    ELSE IF \E i \in GetExchangeById(exchangeId) :
                exchanges[i].requesterId # caller /\ exchanges[i].providerId # caller
         THEN "403"
    ELSE "201"

\* POST /api/messages by `caller`; the row keeps the exchangeId of the body
PostMessage(caller, receiverId, content, exchangeId) ==
    LET code == PostMessageCode(caller, receiverId, exchangeId)
        data == [senderId |-> caller, receiverId |-> receiverId, content |-> content,
                 exchangeId |-> exchangeId]
    IN /\ code = "201" => Len(pending) + Len(messages) < MaxMsgs
       /\ IF code = "201"
          THEN /\ messages' = Append(messages, CreateMessage(data))
               /\ messageIdCounter' = messageIdCounter + 1
          ELSE UNCHANGED <<messages, messageIdCounter>>
       /\ last' = [NoEvent EXCEPT !.type = "post", !.userId = caller,
                                  !.receiverId = receiverId, !.exchangeId = exchangeId,
                                  !.outcome = code,
                                  !.msgId = IF code = "201" THEN messageIdCounter ELSE 0]
       /\ sent' = <<>>
       /\ UNCHANGED <<status, clientId, clients, pending, registered, exchanges, now>>

\* -------------------------------------------------------- messages page
\* The page of user PageUser.  A socket of the page and the connection the
\* server accepts for it carry the same number; a number is used again for a
\* new socket once both ends are closed and nothing refers to it.  The catch
\* block of connectWebSocket is not an action: nothing in the try block throws
\* for the URL the page builds.
RECURSIVE Pow(_, _)
Pow(b, n) == IF n = 0 THEN 1 ELSE b * Pow(b, n - 1)

\* delays are counted in units of 1/Scale ms: 1000 * 1.5^n is then an integer
Scale == Pow(2, MaxAttempts)

Min(a, b) == IF a < b THEN a ELSE b

\* variant: the delay is not capped
DelayUncapped(n) == 1000 * Pow(3, n) * Pow(2, MaxAttempts - n)

\* Math.min(1000 * Math.pow(1.5, reconnectAttempts), 30000)
Delay(n) == Min(1000 * Pow(3, n) * Pow(2, MaxAttempts - n), 30000 * Scale)

\* ws.close(): a socket that is connecting or open starts closing
CloseSocket(rs, c) ==
    IF c # NoHandle /\ rs[c] \in {"connecting", "open"}
    THEN [rs EXCEPT ![c] = "closing"] ELSE rs

\* a number that a new socket can take
Reusable(c) ==
    \/ readyState[c] = "none"
    \/ /\ readyState[c] = "closed"
       /\ status[c] # "open"
       /\ wire[c] = <<>>
       /\ \A i \in DOMAIN pending : pending[i].conn # c

NextSlot == CHOOSE c \in Conns : Reusable(c) /\ \A d \in Conns : d < c => ~Reusable(d)

\* connectWebSocket of effect instance e, after its clearTimeout: the current
\* socket is closed, a new one is created and stored in wsRef
OpenSocket(e) ==
    /\ \E c \in Conns : Reusable(c)
    /\ readyState' = [CloseSocket(readyState, wsRef) EXCEPT ![NextSlot] = "connecting"]
    /\ owner' = [owner EXCEPT ![NextSlot] = e]
    /\ wsRef' = NextSlot
    /\ status' = [status EXCEPT ![NextSlot] = "new"]
    /\ clientId' = [clientId EXCEPT ![NextSlot] = Unknown]
    /\ UNCHANGED <<clients, pending, messages, messageIdCounter, sent, last, registered,
                   exchanges, now>>

\* the effect instances whose cleanup has run
Cleaned(e) == e < effect \/ (e = effect /\ ~active)

\* the first run of the effect
Mount ==
    /\ effect = 0
    /\ effect' = 1
    /\ active' = TRUE
    /\ OpenSocket(1)
    /\ UNCHANGED <<reconnectAttempts, delay, timers, held, wsConnected, wire, posts,
                   sends, drops>>

\* the cleanup of effect instance e: clearTimeout(reconnectTimeout)
CleanupTimers(e) == [timers EXCEPT ![e] = IF held[e] THEN @ - 1 ELSE @]

\* user or selected conversation changes: cleanup of the current instance, then
\* the next instance runs
DepsChange ==
    /\ active
    /\ effect < MaxEffects
    /\ effect' = effect + 1
    /\ timers' = CleanupTimers(effect)
    /\ held' = [held EXCEPT ![effect] = FALSE]
    /\ OpenSocket(effect + 1)
    /\ UNCHANGED <<active, reconnectAttempts, delay, wsConnected, wire, posts, sends,
                   drops>>

\* the page is left: cleanup of the current instance
Unmount ==
    /\ active
    /\ active' = FALSE
    /\ timers' = CleanupTimers(effect)
    /\ held' = [held EXCEPT ![effect] = FALSE]
    /\ readyState' = CloseSocket(readyState, wsRef)
    /\ UNCHANGED <<owner, effect, reconnectAttempts, delay, wsRef, wsConnected, wire,
                   posts, sends, drops>>
    /\ UNCHANGED serverVars

\* a reconnect timer of instance e fires and calls connectWebSocket: the timer
\* that reconnectTimeout holds, or an older one that was overwritten; the
\* clearTimeout of connectWebSocket cancels the held timer if it is pending
TimerFires(e, latest) ==
    /\ IF latest THEN held[e] ELSE timers[e] > (IF held[e] THEN 1 ELSE 0)
    /\ timers' = [timers EXCEPT ![e] = IF ~latest /\ held[e] THEN @ - 2 ELSE @ - 1]
    /\ held' = [held EXCEPT ![e] = FALSE]
    /\ OpenSocket(e)
    /\ UNCHANGED <<effect, active, reconnectAttempts, delay, wsConnected, wire, posts,
                   sends, drops>>

\* the server accepts the connection of socket c
PageAccept(c) ==
    /\ readyState[c] = "connecting"
    /\ Connection(c)
    /\ UNCHANGED pageVars

\* ws.onopen
OnOpen(c) ==
    /\ readyState[c] = "connecting"
    /\ status[c] = "open"
    /\ readyState' = [readyState EXCEPT ![c] = "open"]
    /\ wsConnected' = TRUE
    /\ reconnectAttempts' = [reconnectAttempts EXCEPT ![owner[c]] = 0]
    /\ wire' = [wire EXCEPT ![c] = Append(@, "identify")]
    /\ UNCHANGED <<owner, effect, active, delay, timers, held, wsRef, posts, sends, drops>>
    /\ UNCHANGED serverVars

\* the 10 s connection timeout finds the socket not open and closes it
ConnectionTimeout(c) ==
    /\ readyState[c] = "connecting"
    /\ readyState' = CloseSocket(readyState, c)
    /\ UNCHANGED <<owner, effect, active, reconnectAttempts, delay, timers, held, wsRef,
                   wsConnected, wire, posts, sends, drops>>
    /\ UNCHANGED serverVars

\* the connection of socket c is lost (an unexpected close)
Drop(c) ==
    /\ readyState[c] \in {"connecting", "open"}
    /\ drops < MaxDrops
    /\ drops' = drops + 1
    /\ readyState' = CloseSocket(readyState, c)
    /\ UNCHANGED <<owner, effect, active, reconnectAttempts, delay, timers, held, wsRef,
                   wsConnected, wire, posts, sends>>
    /\ UNCHANGED serverVars

\* ws.onclose, in the closure of the effect instance that created the socket
OnClose(c) ==
    /\ readyState[c] = "closing"
    /\ reconnectAttempts[owner[c]] < MaxAttempts
    /\ readyState' = [readyState EXCEPT ![c] = "closed"]
    /\ wsConnected' = FALSE
    /\ delay' = [delay EXCEPT ![owner[c]] = Delay(reconnectAttempts[owner[c]])]
    /\ reconnectAttempts' = [reconnectAttempts EXCEPT ![owner[c]] = @ + 1]
    /\ timers' = [timers EXCEPT ![owner[c]] = @ + 1]
    /\ held' = [held EXCEPT ![owner[c]] = TRUE]
    /\ UNCHANGED <<owner, effect, active, wsRef, wire, posts, sends, drops>>
    /\ UNCHANGED serverVars

\* handleSendMessage with a text and a recipient: the HTTP request, and a chat
\* frame when wsConnected; send() on a closing or closed socket is dropped, on
\* a connecting one it throws
HandleSendMessage ==
    /\ active
    /\ sends < MaxSends
    /\ sends' = sends + 1
    /\ posts' = posts + 1
    /\ wire' = IF wsConnected /\ wsRef # NoHandle /\ readyState[wsRef] = "open"
               THEN [wire EXCEPT ![wsRef] = Append(@, "chat")]
               ELSE wire
    /\ UNCHANGED <<readyState, owner, effect, active, reconnectAttempts, delay, timers,
                   held, wsRef, wsConnected, drops>>
    /\ UNCHANGED serverVars

\* the server reads the next frame of socket c
ServerFrame(c) ==
    /\ wire[c] # <<>>
    /\ wire' = [wire EXCEPT ![c] = Tail(@)]
    /\ IF Head(wire[c]) = "identify" THEN Identify(c, PageUser) ELSE ChatBegin(c, PageUser)
    /\ UNCHANGED <<readyState, owner, effect, active, reconnectAttempts, delay, timers,
                   held, wsRef, wsConnected, posts, sends, drops>>

\* the server handles the HTTP request of a send
ServerPost(receiverId, exchangeId) ==
    /\ posts > 0
    /\ posts' = posts - 1
    /\ \E content \in Contents : PostMessage(PageUser, receiverId, content, exchangeId)
    /\ UNCHANGED <<readyState, owner, effect, active, reconnectAttempts, delay, timers,
                   held, wsRef, wsConnected, wire, sends, drops>>

\* the server sees the end of the connection of a socket that closed
ServerClose(c) ==
    /\ readyState[c] \in {"closing", "closed"}
    /\ Close(c)
    /\ wire' = [wire EXCEPT ![c] = <<>>]
    /\ UNCHANGED <<readyState, owner, effect, active, reconnectAttempts, delay, timers,
                   held, wsRef, wsConnected, posts, sends, drops>>

\* the connection life cycle of the page
NextPage ==
    \/ Mount
    \/ DepsChange
    \/ Unmount
    \/ \E e \in Effects, latest \in BOOLEAN : TimerFires(e, latest)
    \/ \E c \in Conns : PageAccept(c)
    \/ \E c \in Conns : OnOpen(c)
    \/ \E c \in Conns : ConnectionTimeout(c)
    \/ \E c \in Conns : Drop(c)
    \/ \E c \in Conns : OnClose(c)
    \/ \E c \in Conns : ServerFrame(c)
    \/ \E c \in Conns : ServerClose(c)

SpecPage == Init /\ [][NextPage]_vars

\* sending from the page, with its socket connected or not, and reconnecting
\* after a lost connection while the page stays mounted
NextSend ==
    \/ Mount
    \/ \E e \in Effects, latest \in BOOLEAN : TimerFires(e, latest)
    \/ \E c \in Conns : PageAccept(c)
    \/ \E c \in Conns : OnOpen(c)
    \/ \E c \in Conns : Drop(c)
    \/ \E c \in Conns : OnClose(c)
    \/ HandleSendMessage
    \/ \E c \in Conns : ServerFrame(c)
    \/ \E i \in 1..MaxMsgs, ok \in BOOLEAN : ChatResume(i, ok) /\ UNCHANGED pageVars
    \/ \E r \in UserIds, x \in {Null, 1} : ServerPost(r, x)
    \/ \E c \in Conns : ServerClose(c)

SpecSend == Init /\ [][NextSend]_vars

\* the same with the server reachable and the event loops running: what is
\* scheduled or in flight is eventually handled
SpecSendFair ==
    /\ SpecSend
    /\ WF_vars(\E e \in Effects, latest \in BOOLEAN : TimerFires(e, latest))
    /\ WF_vars(\E c \in Conns : PageAccept(c))
    /\ WF_vars(\E c \in Conns : OnOpen(c))
    /\ WF_vars(\E c \in Conns : OnClose(c))
    /\ WF_vars(\E c \in Conns : ServerFrame(c))
    /\ WF_vars(\E c \in Conns : ServerClose(c))

\* the first MaxLines messages of a conversation about exchange 1, over the
\* relay and over HTTP, while the exchange is created and changes its status
NextConversation ==
    \/ \E u \in UserIds, p \in UserIds, r \in SkillIds, o \in SkillIds :
          exchanges = <<>> /\ CreateExchange(u, p, r, o) /\ UNCHANGED pageVars
    \/ \E u \in UserIds, st \in Statuses : PatchStatus(u, 1, st) /\ UNCHANGED pageVars
    \/ \E c \in Conns : Connect(c) /\ UNCHANGED pageVars
    \/ \E c \in Conns, u \in UserIds : Identify(c, u) /\ UNCHANGED pageVars
    \/ \E c \in Conns, u \in UserIds :
          /\ Len(pending) + Len(messages) < MaxLines
          /\ ChatBegin(c, u) /\ UNCHANGED pageVars
    \/ \E i \in 1..MaxMsgs, ok \in BOOLEAN : ChatResume(i, ok) /\ UNCHANGED pageVars
    \/ \E u \in UserIds, r \in UserIds, content \in Contents, x \in ExchangeInputs :
          /\ Len(pending) + Len(messages) < MaxLines
          /\ PostMessage(u, r, content, x) /\ UNCHANGED pageVars

SpecConversation == Init /\ [][NextConversation]_vars

Next ==
    \/ \E c \in Conns : Connect(c) /\ UNCHANGED pageVars
    \/ \E c \in Conns, u \in IdInputs : Identify(c, u) /\ UNCHANGED pageVars
    \/ \E c \in Conns, s \in IdInputs : ChatBegin(c, s) /\ UNCHANGED pageVars
    \/ \E i \in 1..MaxMsgs, ok \in BOOLEAN : ChatResume(i, ok) /\ UNCHANGED pageVars
    \/ \E c \in Conns : OtherFrame(c) /\ UNCHANGED pageVars
    \/ \E c \in Conns : MalformedFrame(c) /\ UNCHANGED pageVars
    \/ \E c \in Conns : Close(c) /\ UNCHANGED pageVars
    \/ \E u \in UserIds, id \in 1..MaxMsgs : MarkRead(u, id) /\ UNCHANGED pageVars

Spec == Init /\ [][Next]_vars

\* the handlers that write the registry: connection, identify frame, close
NextRegistry ==
    \/ \E c \in Conns : Connect(c) /\ UNCHANGED pageVars
    \/ \E c \in Conns, u \in IdInputs : Identify(c, u) /\ UNCHANGED pageVars
    \/ \E c \in Conns : Close(c) /\ UNCHANGED pageVars

SpecRegistry == Init /\ [][NextRegistry]_vars

\* the exchange routes of the HTTP API
NextExchange ==
    \/ \E u \in CallerInputs, p \in {Null} \cup UserIds, r \in SkillInputs,
          o \in SkillInputs : CreateExchange(u, p, r, o)
          /\ UNCHANGED pageVars
    \/ \E u \in CallerInputs, id \in ExchangeIds, st \in StatusInputs :
          PatchStatus(u, id, st)
          /\ UNCHANGED pageVars

SpecExchange == Init /\ [][NextExchange]_vars

TypeOK ==
    /\ status \in [Conns -> {"new", "open", "closed"}]
    /\ clientId \in [Conns -> Keys]
    /\ clients \in [Keys -> {NoHandle} \cup Conns]
    /\ Len(messages) <= MaxMsgs
    /\ messageIdCounter = Len(messages) + 1
    /\ Len(exchanges) <= MaxExch
    /\ \A i \in DOMAIN exchanges :
          /\ exchanges[i].id = i
          /\ exchanges[i].status \in Statuses
          /\ exchanges[i].requesterId \in UserIds
          /\ exchanges[i].providerId \in UserIds
          /\ exchanges[i].createdAt \in 1..MaxClock
          /\ exchanges[i].updatedAt \in {Null} \cup 1..MaxClock
    /\ now \in 1..(MaxClock + 1)
    /\ readyState \in [Conns -> {"none", "connecting", "open", "closing", "closed"}]
    /\ owner \in [Conns -> {0} \cup Effects]
    /\ effect \in 0..MaxEffects
    /\ reconnectAttempts \in [Effects -> 0..MaxAttempts]
    /\ \A e \in Effects : timers[e] >= (IF held[e] THEN 1 ELSE 0)
    /\ wsRef \in {NoHandle} \cup Conns
    /\ posts \in 0..MaxSends
    /\ sends \in 0..MaxSends
    /\ drops \in 0..MaxDrops

\* ------------------------------------------------------------ properties
Pushes(s) == {i \in DOMAIN s : s[i][2].type = "message"}
Errors(s) == {i \in DOMAIN s : s[i][2].type = "error"}

\* C1: after any sequence of identify frames and closes, the lookup of a key
\* returns the handle of the last register requested for it, and nothing when
\* the last registry operation requested for it was an unregister or there was
\* none.
C1_LookupIsLastRegistryOp == \A k \in Keys : Lookup(k) = registered[k]

\* a close unregistered one user while another connection stays registered
C1_Witness ==
    /\ last.type = "close"
    /\ last.prev # Unknown
    /\ registered[last.prev] = NoHandle
    /\ \E k \in Keys : registered[k] \notin {NoHandle, last.conn}

\* C2: when connection B identifies as U while another connection A holds U,
\* the entry of U becomes B, A keeps its state (it is not closed), the answer to
\* B is the identification acknowledgment and no error frame; and every push
\* of a message goes to the handle the registry holds for the receiver, hence
\* to B and not to the superseded A for as long as B holds the entry.
C2_LastIdentifyWins ==
    /\ [][(last'.type = "identify" /\ Truthy(last'.userId)
            /\ clients[ToString(last'.userId)] \notin {NoHandle, last'.conn})
          => /\ clients'[ToString(last'.userId)] = last'.conn
             /\ status'[clients[ToString(last'.userId)]]
                    = status[clients[ToString(last'.userId)]]
             /\ sent' = <<<<last'.conn, IdentifiedFrame>>>>]_vars
    /\ [](\A i \in Pushes(sent) :
            sent[i][1] = clients[ToString(sent[i][2].payload.receiverId)])

\* a push reached B while the superseded A is still open under the same userId
C2_Witness ==
    \E i \in Pushes(sent) : \E a \in Conns :
        /\ a # sent[i][1]
        /\ status[a] = "open"
        /\ clientId[a] = clientId[sent[i][1]]
        /\ clientId[a] = ToString(sent[i][2].payload.receiverId)

\* C3: a second identify on a connection with a different userId removes the
\* registration of the old userId and installs the new one.
C3_ReidentifyMoves ==
    (last.type = "identify" /\ Truthy(last.userId)
        /\ last.prev \notin {Unknown, ToString(last.userId)})
    => /\ Lookup(last.prev) = NoHandle
       /\ Lookup(ToString(last.userId)) = last.conn

C3_Witness ==
    /\ last.type = "identify"
    /\ Truthy(last.userId)
    /\ last.prev \notin {Unknown, ToString(last.userId)}
    /\ Lookup(ToString(last.userId)) = last.conn

\* C4: a close removes the registry entry of the userId the connection
\* identified as; the close of a connection that never identified leaves the
\* registry as it was.
C4_CloseUnregisters ==
    [][last'.type = "close"
       => IF clientId[last'.conn] # Unknown
          THEN clients'[clientId[last'.conn]] = NoHandle
          ELSE clients' = clients]_vars

\* a superseded connection closed and the entry of its userId is gone
C4_Witness ==
    /\ last.type = "close"
    /\ last.prev # Unknown
    /\ Lookup(last.prev) = NoHandle
    /\ \E b \in Conns : b # last.conn /\ status[b] = "open" /\ clientId[b] = last.prev

\* C5: a chat frame whose senderId is not the userId the connection identified
\* as is answered with one error frame on that connection; nothing is persisted
\* or handed to persistence, nothing is pushed, and the connection stays open.
C5_MismatchRejected ==
    [][(last'.type = "chat"
         /\ ~(Truthy(last'.senderId) /\ ToString(last'.senderId) = clientId[last'.conn]))
       => /\ sent' = <<<<last'.conn, MismatchFrame>>>>
          /\ messages' = messages
          /\ pending' = pending
          /\ status'[last'.conn] = "open"]_vars

\* an identified connection claimed the id of another user
C5_Witness ==
    /\ last.type = "chat"
    /\ last.prev # Unknown
    /\ Truthy(last.senderId)
    /\ ToString(last.senderId) # last.prev
    /\ sent = <<<<last.conn, MismatchFrame>>>>

C7_AckAndPushAgree ==
    [][(last'.type = "resume" /\ last'.outcome = "persisted"
         /\ clients[ToString(last'.receiverId)] # NoHandle)
       => \E i \in DOMAIN pending :
            /\ pending' = RemoveAt(pending, i)
            /\ Len(sent') = 2
            /\ sent'[1][1] = pending[i].conn
            /\ sent'[1][2].type = "system"
            /\ sent'[1][2].messageId = messages'[Len(messages')].id
            /\ sent'[2][2].type = "message"
            /\ sent'[2][2].payload = messages'[Len(messages')]
            /\ sent'[2][2].payload.id = messageIdCounter
            /\ sent'[2][2].payload.content = pending[i].content
            /\ sent'[2][2].payload.senderId = pending[i].senderId
            /\ sent'[2][2].payload.receiverId = pending[i].receiverId]_vars

C7_Witness ==
    /\ last.type = "resume"
    /\ last.target # NoHandle
    /\ Len(sent) = 2
    /\ sent[1][2].messageId = sent[2][2].payload.id
    /\ sent[2][2].payload.senderId # sent[2][2].payload.receiverId
    /\ sent[2][2].payload.content \in Contents

\* C8: when the receiver of an accepted chat frame is not registered the sender
\* is still acknowledged, nothing is pushed and the new row is among the
\* receiver's unread messages; and a row leaves the unread messages of its
\* receiver only by a mark-as-read request of that receiver.
C8_StoreAndForward ==
    [][/\ (last'.type = "resume" /\ last'.outcome = "persisted"
            /\ clients[ToString(last'.receiverId)] = NoHandle)
          => /\ Len(sent') = 1
             /\ sent'[1][1] = last'.conn
             /\ sent'[1][2].type = "system"
             /\ sent'[1][2].messageId = messages'[Len(messages')].id
             /\ messages'[Len(messages')] \in UnreadOf(messages', last'.receiverId)
       /\ \A u \in UserIds : \A m \in GetUnreadMessagesByUserId(u) :
            \/ m \in UnreadOf(messages', u)
            \/ last'.type = "markread" /\ last'.userId = u /\ last'.msgId = m.id]_vars

\* the row of an offline receiver is still unread after another user tried to
\* mark it as read
C8_Witness ==
    /\ last.type = "markread"
    /\ last.outcome = "403"
    /\ \E u \in UserIds \ {last.userId} :
        /\ \E m \in GetUnreadMessagesByUserId(u) : m.id = last.msgId
        /\ Lookup(ToString(u)) = NoHandle

\* C9: when the insert of an accepted chat frame fails, the sender gets one
\* error frame and nothing else is sent (no acknowledgment, no push), no row is
\* stored, and connections and registry are as they were.
C9_PersistenceFailure ==
    [][(last'.type = "resume" /\ last'.outcome = "failed")
       => /\ Len(sent') = 1
          /\ sent'[1][1] = last'.conn
          /\ sent'[1][2].type = "error"
          /\ messages' = messages
          /\ status' = status
          /\ clients' = clients
          /\ clientId' = clientId]_vars

C9_Witness ==
    /\ last.type = "resume"
    /\ last.outcome = "failed"
    /\ status[last.conn] = "open"
    /\ Lookup(last.prev) = last.conn
    /\ Errors(sent) = {1}
    /\ messages = <<>>

\* C10: while a connection is Unidentified every frame other than identify is
\* answered with an error frame, changes neither registry nor messages, and
\* leaves the connection open and Unidentified.
C10_UnidentifiedRejects ==
    [][(last'.type \in {"chat", "other", "malformed"} /\ clientId[last'.conn] = Unknown)
       => /\ Len(sent') = 1
          /\ sent'[1][1] = last'.conn
          /\ sent'[1][2].type = "error"
          /\ clients' = clients
          /\ messages' = messages
          /\ pending' = pending
          /\ status'[last'.conn] = "open"
          /\ clientId'[last'.conn] = Unknown]_vars

\* C11: every inbound frame whose processing ended is answered on the
\* connection it came from with a system (acknowledgment) or an error frame;
\* a frame of unknown type and a frame that does not parse get an error frame.
C11_EveryFrameAnswered ==
    /\ (\/ last.type \in {"identify", "other", "malformed", "resume"}
        \/ last.type = "chat" /\ last.outcome = "rejected")
       => \E i \in DOMAIN sent :
            sent[i][1] = last.conn /\ sent[i][2].type \in {"system", "error"}
    /\ last.type \in {"other", "malformed"}
       => \E i \in Errors(sent) : sent[i][1] = last.conn

\* C12: frames of one connection are processed in arrival order: while a chat
\* frame of a connection is suspended on persistence, no later frame of that
\* connection has an effect (an answer, a registry change).
C12_ArrivalOrder ==
    \A i \in DOMAIN pending :
        ~(/\ last.conn = pending[i].conn
          /\ \/ last.type \in {"identify", "malformed"} /\ sent # <<>>
             \/ last.type = "chat" /\ last.outcome = "rejected")

\* C13: from pending, the status changes only to accepted or declined and only
\* on a request of the provider; a request for completed on a pending exchange
\* always fails and leaves the exchange pending.
C13_FromPending ==
    [][\A i \in DOMAIN exchanges :
          exchanges[i].status = "pending" =>
            /\ exchanges'[i].status # "pending" =>
                 /\ exchanges'[i].status \in {"accepted", "declined"}
                 /\ last'.userId = exchanges[i].providerId
            /\ (/\ last'.type = "patchStatus"
                /\ last'.exchangeId = exchanges[i].id
                /\ last'.arg = "completed") =>
                 /\ last'.outcome \notin {"200"}
                 /\ exchanges'[i].status = "pending"]_vars

\* C14: from accepted, the status changes only to completed and only on a
\* request of the requester or the provider; a request for accepted or declined
\* on an accepted exchange always fails and leaves it accepted.
C14_FromAccepted ==
    [][\A i \in DOMAIN exchanges :
          exchanges[i].status = "accepted" =>
            /\ exchanges'[i].status # "accepted" =>
                 /\ exchanges'[i].status = "completed"
                 /\ last'.userId \in {exchanges[i].requesterId, exchanges[i].providerId}
            /\ (/\ last'.type = "patchStatus"
                /\ last'.exchangeId = exchanges[i].id
                /\ last'.arg \in {"accepted", "declined"}) =>
                 /\ last'.outcome \notin {"200"}
                 /\ exchanges'[i].status = "accepted"]_vars

\* C15: declined and completed are terminal: every status request on such an
\* exchange fails and its status never changes again.
C15_Terminal ==
    [][\A i \in DOMAIN exchanges :
          exchanges[i].status \in {"declined", "completed"} =>
            /\ exchanges'[i].status = exchanges[i].status
            /\ (/\ last'.type = "patchStatus"
                /\ last'.exchangeId = exchanges[i].id
                /\ last'.userId # Null) =>
                 last'.outcome \notin {"200"}]_vars

\* C16: a status request of the wrong actor (accepted or declined asked by
\* someone who is not the provider, completed asked by someone who is neither
\* requester nor provider) is answered 403 and leaves the exchange's status and
\* updatedAt as they were.
C16_WrongActorRejected ==
    [][(last'.type = "patchStatus" /\ last'.userId # Null) =>
         \A i \in DOMAIN exchanges :
            (/\ exchanges[i].id = last'.exchangeId
             /\ \/ /\ last'.arg \in {"accepted", "declined"}
                   /\ last'.userId # exchanges[i].providerId
                \/ /\ last'.arg = "completed"
                   /\ last'.userId \notin {exchanges[i].requesterId,
                                           exchanges[i].providerId}) =>
               /\ last'.outcome = "403"
               /\ exchanges'[i].status = exchanges[i].status
               /\ exchanges'[i].updatedAt = exchanges[i].updatedAt]_vars

C16_Witness ==
    /\ last.type = "patchStatus" /\ last.outcome = "403"
    /\ \E i \in DOMAIN exchanges :
          /\ exchanges[i].id = last.exchangeId
          /\ last.arg = "accepted"
          /\ last.userId = exchanges[i].requesterId
          /\ last.userId # exchanges[i].providerId
          /\ exchanges[i].status = "pending"

\* C17: a status request of an authenticated user for an existing exchange
\* whose status is none of pending, accepted, declined, completed is answered
\* 400 (not the 403 of an authorization failure), whoever the caller is, and
\* leaves every exchange as it was.
C17_InvalidStatusRejected ==
    [][(/\ last'.type = "patchStatus"
        /\ last'.userId # Null
        /\ last'.arg \notin {"pending", "accepted", "declined", "completed"}
        /\ \E i \in DOMAIN exchanges : exchanges[i].id = last'.exchangeId) =>
         /\ last'.outcome = "400"
         /\ exchanges' = exchanges]_vars

C17_Witness ==
    /\ last.type = "patchStatus" /\ last.outcome = "400"
    /\ last.arg = "cancelled"
    /\ \E i \in DOMAIN exchanges :
          /\ exchanges[i].id = last.exchangeId
          /\ last.userId \notin {exchanges[i].requesterId, exchanges[i].providerId}

\* C18: a successful status request changes nothing but the status and the
\* updatedAt of the addressed exchange: its other columns, and every other
\* exchange, are as before.
C18_OnlyStatusAndUpdatedAt ==
    [][(last'.type = "patchStatus" /\ last'.outcome = "200") =>
         /\ Len(exchanges') = Len(exchanges)
         /\ \A i \in DOMAIN exchanges :
              IF exchanges[i].id = last'.exchangeId
              THEN /\ exchanges'[i] =
                        [exchanges[i] EXCEPT !.status = last'.arg, !.updatedAt = now]
                   /\ exchanges'[i].requesterId = exchanges[i].requesterId
                   /\ exchanges'[i].providerId = exchanges[i].providerId
                   /\ exchanges'[i].requestedSkillId = exchanges[i].requestedSkillId
                   /\ exchanges'[i].offeredSkillId = exchanges[i].offeredSkillId
                   /\ exchanges'[i].createdAt = exchanges[i].createdAt
              ELSE exchanges'[i] = exchanges[i]]_vars

C18_Witness ==
    /\ last.type = "patchStatus" /\ last.outcome = "200"
    /\ Len(exchanges) = 2
    /\ \E i, j \in DOMAIN exchanges :
          /\ exchanges[i].id = last.exchangeId
          /\ exchanges[i].status = "accepted"
          /\ exchanges[i].updatedAt # Null
          /\ exchanges[j].id # last.exchangeId
          /\ exchanges[j].status = "pending"
          /\ exchanges[j].updatedAt = Null

\* C19: a stored message never disappears and never changes, except that its
\* read flag goes from false to true on a mark-as-read request of its receiver;
\* a mark-as-read request of anyone else is answered 403.
C19_OnlyReadChanges ==
    [][/\ Len(messages') >= Len(messages)
       /\ \A i \in DOMAIN messages :
            /\ \/ messages'[i] = messages[i]
               \/ /\ messages'[i] = [messages[i] EXCEPT !.read = TRUE]
                  /\ ~messages[i].read
                  /\ last'.type = "markread"
                  /\ last'.outcome = "200"
                  /\ last'.msgId = messages[i].id
                  /\ last'.userId = messages[i].receiverId
            /\ (/\ last'.type = "markread"
                /\ last'.msgId = messages[i].id
                /\ last'.userId # messages[i].receiverId) =>
                 last'.outcome = "403"]_vars

C19_Witness ==
    /\ last.type = "markread" /\ last.outcome = "200"
    /\ \E i \in DOMAIN messages :
          /\ messages[i].id = last.msgId
          /\ messages[i].read
          /\ messages[i].receiverId = last.userId
          /\ messages[i].senderId # last.userId

\* C20: the requester and the provider of every exchange are different users.
C20_RequesterIsNotProvider ==
    \A i \in DOMAIN exchanges : exchanges[i].requesterId # exchanges[i].providerId

\* C23: a protocol error on a connection (a frame that does not parse, a frame
\* of unknown type, a chat frame whose senderId is not the identity of the
\* connection) is reported to that connection and to no other: an error frame
\* goes to the offending connection, no frame goes anywhere else, no connection
\* is closed, the registry and the stored messages are as before.
C23_ProtocolErrorLocal ==
    [][(\/ last'.type \in {"malformed", "other"}
        \/ last'.type = "chat" /\ last'.outcome = "rejected") =>
         /\ \E i \in Errors(sent') : sent'[i][1] = last'.conn
         /\ \A i \in DOMAIN sent' : sent'[i][1] = last'.conn
         /\ status' = status
         /\ clients' = clients
         /\ messages' = messages]_vars

\* C25: while the connection that most recently identified as U is open and
\* has not identified again, lookup(U) returns it: a step that is neither an
\* identify as U nor a close or identify of that connection (in particular the
\* close or the re-identification of an older connection) keeps its entry.
C25_NewerRegistrationSurvives ==
    [][\A k \in Keys \ {Unknown} : \A b \in Conns :
          (/\ Lookup(k) = b
           /\ status[b] = "open"
           /\ clientId[b] = k
           /\ last'.conn # b
           /\ ~(last'.type = "identify" /\ Truthy(last'.userId)
                  /\ ToString(last'.userId) = k)) =>
             clients'[k] = b]_vars

\* C26: every registry entry (U, h) refers to a connection h that is open and
\* whose identified userId is U.
C26_RegistryEntriesLive ==
    \A k \in Keys :
        Lookup(k) # NoHandle => status[Lookup(k)] = "open" /\ clientId[Lookup(k)] = k

\* a connection that had identified closed while another one is registered
C26_Witness ==
    /\ last.type = "close"
    /\ last.prev # Unknown
    /\ \E k \in Keys : Lookup(k) \notin {NoHandle, last.conn}

\* C28: a request of a caller who is neither the requester nor the provider of
\* an exchange never changes the status or the updatedAt of that exchange,
\* whatever the requested status, pending included.
C28_OutsiderChangesNothing ==
    [][last'.type = "patchStatus" =>
         \A i \in DOMAIN exchanges :
            (/\ exchanges[i].id = last'.exchangeId
             /\ last'.userId \notin {exchanges[i].requesterId, exchanges[i].providerId}) =>
               /\ exchanges'[i].status = exchanges[i].status
               /\ exchanges'[i].updatedAt = exchanges[i].updatedAt]_vars

\* C27: one send on the messages page results in exactly one stored Message,
\* with the socket of the page connected or not: once the request and the
\* frame of the send are handled, there is one row per send.
C27_OneRowPerSend ==
    (posts = 0 /\ pending = <<>> /\ \A c \in Conns : wire[c] = <<>>) =>
        Len(messages) <= sends

\* C21: after an unexpected close the page reconnects; on every socket it
\* opens, the identify frame goes out before any chat frame; once the server
\* has seen the close the user is absent from the registry until an identify is
\* processed; and, with the server reachable, the user is eventually registered
\* again.
C21_ReconnectReidentifies ==
    /\ [](\A c \in Conns : \A j \in DOMAIN wire[c] :
            wire[c][j] = "chat" =>
                \/ clientId[c] # Unknown
                \/ \E i \in 1..(j - 1) : wire[c][i] = "identify")
    /\ [][/\ (last'.type = "close" /\ last'.prev = ToString(PageUser))
               => Lookup(ToString(PageUser))' = NoHandle
          /\ (Lookup(ToString(PageUser)) = NoHandle
                /\ Lookup(ToString(PageUser))' # NoHandle)
               => last'.type = "identify"]_vars
    /\ (\E c \in Conns : status[c] = "closed") ~> (Lookup(ToString(PageUser)) # NoHandle)

\* C22: the reconnect delay is 1000 ms times 1.5 per consecutive failed attempt,
\* capped: in a run of closes without an open it never decreases and never
\* exceeds 30000 ms, and an open resets the attempt counter, so that the next
\* delay is 1000 ms again.
C22_BackoffCapped ==
    [][\A e \in Effects :
          /\ timers'[e] > timers[e] =>
                /\ delay'[e] <= 30000 * Scale
                /\ reconnectAttempts[e] > 0 => delay'[e] >= delay[e]
                /\ reconnectAttempts[e] = 0 => delay'[e] = 1000 * Scale
                /\ reconnectAttempts[e] = 1 => delay'[e] = 1500 * Scale
          /\ (\E c \in Conns : /\ owner[c] = e
                               /\ readyState[c] = "connecting"
                               /\ readyState'[c] = "open")
                => reconnectAttempts'[e] = 0]_vars

\* the delay reached the cap and stayed there
C22_Witness ==
    \E e \in Effects :
        /\ reconnectAttempts[e] = MaxAttempts
        /\ delay[e] = 30000 * Scale
        /\ timers[e] > 0

\* C30: once the cleanup of an effect instance has run, that instance opens no
\* further socket and schedules no further reconnect, and the page never has
\* more than one socket that is connecting or open.
C30_CleanupIsFinal ==
    /\ [][\A e \in Effects : Cleaned(e) =>
            /\ timers'[e] <= timers[e]
            /\ \A c \in Conns :
                 (readyState[c] # "connecting" /\ readyState'[c] = "connecting")
                    => owner'[c] # e]_vars
    /\ [](Cardinality({c \in Conns : readyState[c] \in {"connecting", "open"}}) <= 1)

\* C24: a chat frame that names an exchange is accepted, stored and relayed
\* whatever the status of the exchange: a frame of the identified sender is
\* handed to persistence; it fails only when the insert fails; the stored row
\* keeps the exchangeId, the sender is acknowledged and the row is pushed to the
\* receiver exactly when the receiver is registered.
C24_ChatWhateverStatus ==
    [][/\ (/\ last'.type = "chat"
           /\ Truthy(last'.senderId)
           /\ ToString(last'.senderId) = clientId[last'.conn])
          => /\ last'.outcome = "suspended"
             /\ Len(pending') = Len(pending) + 1
       /\ (last'.type = "resume" /\ last'.outcome = "failed")
          => (last'.arg = "threw" \/ last'.receiverId = Null)
       /\ (last'.type = "resume" /\ last'.outcome = "persisted"
             /\ last'.exchangeId # Null)
          => /\ messages'[Len(messages')].exchangeId = last'.exchangeId
             /\ sent'[1] = <<last'.conn, AckFrame(messages'[Len(messages')])>>
             /\ IF clients[ToString(last'.receiverId)] # NoHandle
                THEN /\ Len(sent') = 2
                     /\ sent'[2] = <<clients[ToString(last'.receiverId)],
                                     PushFrame(messages'[Len(messages')])>>
                ELSE Len(sent') = 1]_vars

\* a message about a declined or completed exchange was stored and pushed
C24_Witness ==
    /\ last.type = "resume"
    /\ last.outcome = "persisted"
    /\ last.target # NoHandle
    /\ Pushes(sent) # {}
    /\ \E i \in DOMAIN exchanges :
          /\ exchanges[i].id = last.exchangeId
          /\ exchanges[i].status \in {"declined", "completed"}

\* C29: every stored Message with an exchangeId refers to an existing exchange
\* of which its sender is the requester or the provider, whether it came in by
\* POST /api/messages or by a chat frame.
C29_MessagesOfParticipants ==
    \A i \in DOMAIN messages :
        messages[i].exchangeId # Null =>
            \E j \in DOMAIN exchanges :
                /\ exchanges[j].id = messages[i].exchangeId
                /\ messages[i].senderId \in {exchanges[j].requesterId,
                                            exchanges[j].providerId}
====
